---- MODULE Spec2Model ----
(***************************************************************************)
(* A curve of the curves library: a coefficient manager                    *)
(* (LocalSupport2CoefficientManager, manager_), the sampling policy of     *)
(* DiscreteSE3Curve (SamplingPolicy::extend<DiscreteSE3Curve, SE3>) and    *)
(* fitCurve as LinearInterpolationVectorSpaceCurve::fitCurve codes it.     *)
(*                                                                         *)
(* The manager, the key generator, clear() and setSamplingRatio() are not  *)
(* part of the source file; they follow the contract the specification     *)
(* gives them (sections 3, 4.1, 5 and 7).                                  *)
(*                                                                         *)
(* A CHECK that fails aborts the call: status becomes "failed" and the     *)
(* variables keep what the call had done up to that point.                 *)
(***************************************************************************)
EXTENDS Integers, Sequences, FiniteSets, TLC

\* ------------------------------------------------------------------ bounds
MaxTime == 4
MaxBatch == 2
MaxKey == 4
MaxRatio == 3
MaxCount == 3
MaxFitTime == 2
MaxEvalSize == 3
MaxOrder == 2
MaxInterleaveKey == 6
MaxInterleaveCount == 2
MaxStreamCount == 5

Times == 0..MaxTime
\* fitCurve is given times of a shorter range.
FitTimes == 0..MaxFitTime
\* Coefficient values, as vectors: two of dimension 1 and one of dimension 2.
\* extend is given values of one dimension (poses have no dimension to differ
\* in); fitCurve, which checks the dimensions, is given all three.
Poses == {<<0>>, <<1>>}
Values == Poses \cup {<<0, 0>>}

VARIABLES
  store,                        \* manager_: the time-ordered map, as the sequence of its entries
  nextKey,                      \* the key generator's next key
  measurementsSinceLastExtend_, \* SamplingPolicy counter
  minimumMeasurements_,         \* SamplingPolicy sampling ratio
  status,                       \* "ok", or "failed" once a CHECK aborted a call
  call,                         \* the last call: operation, branch taken and, when it returned, arguments and keys reported
  cycleKey,                     \* history: the key (as a set of at most one) appended by the first measurement of the decimation cycle under way
  overwrites,                   \* history: the returned overwrites in a row since the last setSamplingRatio or other call
  result,                       \* what the last call returned, when it was a query (evaluate, evaluateDerivative)
  run,                          \* history: consecutive increasing single-sample extends of the current decimation cycle
  runBase,                      \* history: the curve size when that cycle began
  runKey                        \* history: the key appended by the first call of that cycle

vars == <<store, nextKey, measurementsSinceLastExtend_, minimumMeasurements_,
          status, call, cycleKey, overwrites, result, run, runBase, runKey>>

\* ------------------------------------------------- coefficient manager
Entry(t, k, v) == [time |-> t, key |-> k, coefficient |-> v]

size(m) == Len(m)

isEmpty(m) == Len(m) = 0

getBackTime(m) == m[Len(m)].time

getFrontTime(m) == m[1].time

TimesOf(m) == [i \in 1..Len(m) |-> m[i].time]

ValuesOf(m) == [i \in 1..Len(m) |-> m[i].coefficient]

KeysOf(m) == {m[i].key : i \in 1..Len(m)}

hasCoefficientAtTime(m, t) == \E i \in 1..Len(m) : m[i].time = t

StrictlyIncreasing(ts) == \A i \in 1..Len(ts) - 1 : ts[i] < ts[i + 1]

\* The ordered map's insertion: the entry goes after every entry of a smaller time.
InsertSorted(m, e) ==
  LET k == Cardinality({i \in 1..Len(m) : m[i].time < e.time})
  IN SubSeq(m, 1, k) \o <<e>> \o SubSeq(m, k + 1, Len(m))

RemoveAt(m, i) == SubSeq(m, 1, i - 1) \o SubSeq(m, i + 1, Len(m))

RECURSIVE InsertAll(_, _, _, _, _)
InsertAll(m, next, times, values, i) ==
  IF i > Len(times) THEN m
  ELSE InsertAll(InsertSorted(m, Entry(times[i], next + i - 1, values[i])),
                 next, times, values, i + 1)

Result(ok, m, next, out) == [ok |-> ok, m |-> m, next |-> next, out |-> out]

\* insertCoefficients(times, values, outKeys): validate, then apply.
insertCoefficients(m, next, times, values) ==
  IF \/ Len(times) # Len(values)
     \/ ~StrictlyIncreasing(times)
     \/ \E i \in 1..Len(times) : hasCoefficientAtTime(m, times[i])
  THEN Result(FALSE, m, next, <<>>)
  ELSE Result(TRUE, InsertAll(m, next, times, values, 1), next + Len(times),
              [i \in 1..Len(times) |-> next + i - 1])

\* addCoefficientAtEnd(time, value, outKeys): requires time > current max time.
addCoefficientAtEnd(m, next, time, value) ==
  IF ~isEmpty(m) /\ time <= getBackTime(m)
  THEN Result(FALSE, m, next, <<>>)
  ELSE Result(TRUE, Append(m, Entry(time, next, value)), next + 1, <<next>>)

\* modifyCoefficient(it, newTime, newValue): the entry at position i gets the
\* new value and is re-keyed to the new time, keeping its Key.
modifyCoefficient(m, next, i, time, value) ==
  IF \E j \in 1..Len(m) : j # i /\ m[j].time = time
  THEN Result(FALSE, m, next, <<>>)
  ELSE Result(TRUE, InsertSorted(RemoveAt(m, i), Entry(time, m[i].key, value)),
              next, <<>>)

\* clear(): every entry is destroyed; the key generator is not reset.
clear(m) == <<>>

\* ------------------------------------------------------ sampling policy
\* Faulty variant: only the empty call is taken as a batch.
IsBatchOnlyEmpty(times) == Len(times) = 0

\* times.size() != 1: a batch call (an empty call included).
IsBatch(times) == Len(times) # 1

\* Faulty variant: the size-1 curve is not taken as bootstrap.
IsBootstrapOnlyEmpty(m) == isEmpty(m)

\* curve->isEmpty() || curve->size() == 1
IsBootstrap(m) == isEmpty(m) \/ size(m) = 1

\* minimumMeasurements_ == 1
NoDecimation(minMeas) == minMeas = 1

\* Faulty variant: every measurement is taken as the first of its cycle.
FirstMeasurementAlways(count) == count >= 1

\* measurementsSinceLastExtend_ == 1, read after the increment
FirstMeasurement(count) == count = 1

\* Faulty variant: the reset compares with > instead of ==.
ResetCounterLate(count, minMeas) == IF count > minMeas THEN 0 ELSE count

\* if (measurementsSinceLastExtend_ == minimumMeasurements_) measurementsSinceLastExtend_ = 0;
ResetCounter(count, minMeas) == IF count = minMeas THEN 0 ELSE count

PolicyResult(r, count, branch) ==
  [ok |-> r.ok, m |-> r.m, next |-> r.next, out |-> r.out,
   count |-> count, branch |-> branch]

\* Faulty variant: the no-decimation branch overwrites the last coefficient
\* instead of appending.
ExtendOverwritesAtRatioOne(m, next, count, minMeas, times, values) ==
  IF IsBatch(times)
  THEN PolicyResult(insertCoefficients(m, next, times, values), count, "batch")
  ELSE IF IsBootstrap(m)
  THEN PolicyResult(insertCoefficients(m, next, times, values), count, "bootstrap")
  ELSE IF NoDecimation(minMeas)
  THEN PolicyResult(modifyCoefficient(m, next, Len(m), times[1], values[1]), count, "append")
  ELSE LET c == count + 1
           r == IF FirstMeasurement(c)
                THEN addCoefficientAtEnd(m, next, times[1], values[1])
                ELSE modifyCoefficient(m, next, Len(m), times[1], values[1])
       IN PolicyResult(r, IF r.ok THEN ResetCounter(c, minMeas) ELSE c,
                       IF FirstMeasurement(c) THEN "cycleAppend" ELSE "overwrite")

\* Faulty variant: the overwrite writes the new time and value into the last
\* entry where it stands, without going through modifyCoefficient.
ExtendOverwritesInPlace(m, next, count, minMeas, times, values) ==
  IF IsBatch(times)
  THEN PolicyResult(insertCoefficients(m, next, times, values), count, "batch")
  ELSE IF IsBootstrap(m)
  THEN PolicyResult(insertCoefficients(m, next, times, values), count, "bootstrap")
  ELSE IF NoDecimation(minMeas)
  THEN PolicyResult(addCoefficientAtEnd(m, next, times[1], values[1]), count, "append")
  ELSE LET c == count + 1
           r == IF FirstMeasurement(c)
                THEN addCoefficientAtEnd(m, next, times[1], values[1])
                ELSE Result(TRUE,
                            [m EXCEPT ![Len(m)] = Entry(times[1], m[Len(m)].key, values[1])],
                            next, <<>>)
       IN PolicyResult(r, IF r.ok THEN ResetCounter(c, minMeas) ELSE c,
                       IF FirstMeasurement(c) THEN "cycleAppend" ELSE "overwrite")

\* Faulty variant: the overwrite takes the iterator one entry too early and
\* modifies the second-to-last coefficient.
ExtendOverwritesBeforeLast(m, next, count, minMeas, times, values) ==
  IF IsBatch(times)
  THEN PolicyResult(insertCoefficients(m, next, times, values), count, "batch")
  ELSE IF IsBootstrap(m)
  THEN PolicyResult(insertCoefficients(m, next, times, values), count, "bootstrap")
  ELSE IF NoDecimation(minMeas)
  THEN PolicyResult(addCoefficientAtEnd(m, next, times[1], values[1]), count, "append")
  ELSE LET c == count + 1
           r == IF FirstMeasurement(c)
                THEN addCoefficientAtEnd(m, next, times[1], values[1])
                ELSE modifyCoefficient(m, next, Len(m) - 1, times[1], values[1])
       IN PolicyResult(r, IF r.ok THEN ResetCounter(c, minMeas) ELSE c,
                       IF FirstMeasurement(c) THEN "cycleAppend" ELSE "overwrite")

\* Faulty variant: without decimation the append is made without outKeys.
ExtendAppendDropsOutKeys(m, next, count, minMeas, times, values) ==
  IF IsBatch(times)
  THEN PolicyResult(insertCoefficients(m, next, times, values), count, "batch")
  ELSE IF IsBootstrap(m)
  THEN PolicyResult(insertCoefficients(m, next, times, values), count, "bootstrap")
  ELSE IF NoDecimation(minMeas)
  THEN PolicyResult([addCoefficientAtEnd(m, next, times[1], values[1])
                       EXCEPT !.out = <<>>], count, "append")
  ELSE LET c == count + 1
           r == IF FirstMeasurement(c)
                THEN addCoefficientAtEnd(m, next, times[1], values[1])
                ELSE modifyCoefficient(m, next, Len(m), times[1], values[1])
       IN PolicyResult(r, IF r.ok THEN ResetCounter(c, minMeas) ELSE c,
                       IF FirstMeasurement(c) THEN "cycleAppend" ELSE "overwrite")

\* SamplingPolicy::extend<DiscreteSE3Curve, SE3>(times, values, curve, outKeys).
\* A manager call that fails aborts: the counter keeps its increment and is
\* not reset.
Extend(m, next, count, minMeas, times, values) ==
  IF IsBatch(times)
  THEN PolicyResult(insertCoefficients(m, next, times, values), count, "batch")
  ELSE IF IsBootstrap(m)
  THEN PolicyResult(insertCoefficients(m, next, times, values), count, "bootstrap")
  ELSE IF NoDecimation(minMeas)
  THEN PolicyResult(addCoefficientAtEnd(m, next, times[1], values[1]), count, "append")
  ELSE LET c == count + 1
           r == IF FirstMeasurement(c)
                THEN addCoefficientAtEnd(m, next, times[1], values[1])
                ELSE modifyCoefficient(m, next, Len(m), times[1], values[1])
       IN PolicyResult(r, IF r.ok THEN ResetCounter(c, minMeas) ELSE c,
                       IF FirstMeasurement(c) THEN "cycleAppend" ELSE "overwrite")

\* ------------------------------------------------------------- fitCurve
\* CHECK_EQ(vsize, values[i].size()): every value has the dimension of values[0].
UniformLength(values) == \A i \in 1..Len(values) : Len(values[i]) = Len(values[1])

\* Faulty variant: the manager is not cleared before the insertion.
FitCurveKeepsOld(m, next, times, values) ==
  IF Len(times) # Len(values)
  THEN Result(FALSE, m, next, <<>>)
  ELSE IF Len(times) > 0
  THEN IF ~UniformLength(values)
       THEN Result(FALSE, m, next, <<>>)
       ELSE insertCoefficients(m, next, times, values)
  ELSE Result(TRUE, m, next, <<>>)

\* LinearInterpolationVectorSpaceCurve::fitCurve(times, values)
FitCurve(m, next, times, values) ==
  IF Len(times) # Len(values)
  THEN Result(FALSE, m, next, <<>>)
  ELSE IF Len(times) > 0
  THEN IF ~UniformLength(values)
       THEN Result(FALSE, clear(m), next, <<>>)
       ELSE insertCoefficients(clear(m), next, times, values)
  ELSE Result(TRUE, m, next, <<>>)

\* ------------------------------------------------------------- evaluate
\* getCoefficientsAt(time, out pair): the positions of the two entries
\* bracketing time, or no pair.
NoPair == [ok |-> FALSE, first |-> 0, second |-> 0]

Pair(i, j) == [ok |-> TRUE, first |-> i, second |-> j]

\* The entry of the greatest time <= time.
FloorIndex(m, time) == Cardinality({i \in 1..Len(m) : m[i].time <= time})

\* The outcomes getCoefficientsAt may have. No pair when the map is empty or
\* time is outside [front, back]. At the back time the pair is (second-to-last,
\* last), elsewhere (entry at or before time, next entry). On a map of one
\* entry, queried at its time, there are no two entries to return: the call
\* either finds no pair or returns the one entry twice.
getCoefficientsAt(m, time) ==
  IF isEmpty(m) THEN {NoPair}
  ELSE IF time < getFrontTime(m) \/ time > getBackTime(m) THEN {NoPair}
  ELSE IF size(m) = 1 THEN {NoPair, Pair(1, 1)}
  ELSE IF time = getBackTime(m) THEN {Pair(Len(m) - 1, Len(m))}
  ELSE {Pair(FloorIndex(m, time), FloorIndex(m, time) + 1)}

\* What a query returns: nothing (the call aborted or was no query), a vector
\* of rationals num[k] / den, or a vector of NaN (0.0 / 0.0).
NoResult == [kind |-> "none", num |-> <<>>, den |-> 1]

NaNResult == [kind |-> "nan", num |-> <<>>, den |-> 1]

Rational(num, den) == [kind |-> "value", num |-> num, den |-> den]

Answer(ok, value) == [ok |-> ok, value |-> value]

\* Faulty variant: alpha is measured from the first coefficient, so the
\* weights of the two coefficients are swapped.
EvaluateSwapped(m, time, p) ==
  IF ~p.ok THEN Answer(FALSE, NoResult)
  ELSE LET c0 == m[p.first]
           c1 == m[p.second]
           dt == c1.time - c0.time
           t == time - c0.time
       IN IF dt = 0 THEN Answer(TRUE, NaNResult)
          ELSE Answer(TRUE,
                 Rational([k \in 1..Len(c0.coefficient) |->
                             t * c0.coefficient[k] + (dt - t) * c1.coefficient[k]],
                          dt))

\* LinearInterpolationVectorSpaceCurve::evaluate(time), p the outcome of
\* manager_.getCoefficientsAt: CHECK(success), dt = t1 - t0, t = t1 - time,
\* alpha = t / dt, alpha * v0 + (1 - alpha) * v1, here as the exact rational
\* (t * v0 + (dt - t) * v1) / dt. With dt = 0, alpha is 0.0 / 0.0.
Evaluate(m, time, p) ==
  IF ~p.ok THEN Answer(FALSE, NoResult)
  ELSE LET c0 == m[p.first]
           c1 == m[p.second]
           dt == c1.time - c0.time
           t == c1.time - time
       IN IF dt = 0 THEN Answer(TRUE, NaNResult)
          ELSE Answer(TRUE,
                 Rational([k \in 1..Len(c0.coefficient) |->
                             t * c0.coefficient[k] + (dt - t) * c1.coefficient[k]],
                          dt))

\* Faulty variant: the slope is always taken between the last two coefficients.
EvaluateDerivativeLastPair(m, time, order) ==
  IF size(m) < 2 \/ time < getFrontTime(m) \/ time > getBackTime(m)
  THEN Answer(FALSE, NoResult)
  ELSE IF order = 1
  THEN LET c0 == m[Len(m) - 1]
           c1 == m[Len(m)]
       IN Answer(TRUE,
            Rational([k \in 1..Len(c0.coefficient) |->
                        c1.coefficient[k] - c0.coefficient[k]],
                     c1.time - c0.time))
  ELSE Answer(TRUE, Rational([k \in 1..Len(m[1].coefficient) |-> 0], 1))

\* DiscreteSE3Curve::evaluateDerivative(time, derivativeOrder): an error when
\* time is out of bounds or there are fewer than 2 coefficients; for order 1 the
\* slope between the two coefficients getCoefficientsAt selects; zero for
\* higher orders.
EvaluateDerivative(m, time, order) ==
  IF size(m) < 2 \/ time < getFrontTime(m) \/ time > getBackTime(m)
  THEN Answer(FALSE, NoResult)
  ELSE IF order = 1
  THEN LET p == CHOOSE q \in getCoefficientsAt(m, time) : TRUE
           c0 == m[p.first]
           c1 == m[p.second]
       IN Answer(TRUE,
            Rational([k \in 1..Len(c0.coefficient) |->
                        c1.coefficient[k] - c0.coefficient[k]],
                     c1.time - c0.time))
  ELSE Answer(TRUE, Rational([k \in 1..Len(m[1].coefficient) |-> 0], 1))

\* ------------------------------------------------------------ the curve
SeqsUpTo(S, n) == UNION {[1..k -> S] : k \in 0..n}

\* again: the call repeats the call before it (same operation, same arguments),
\* which had returned.
Call(op, times, values, branch, out, again) ==
  [op |-> op, times |-> times, values |-> values, branch |-> branch, out |-> out,
   again |-> again]

Outcome(ok) == IF ok THEN "ok" ELSE "failed"

\* Construction: an empty manager, a counter of 0 and a sampling ratio >= 1.
Init ==
  /\ store = <<>>
  /\ nextKey = 0
  /\ measurementsSinceLastExtend_ = 0
  /\ minimumMeasurements_ \in 1..MaxRatio
  /\ status = "ok"
  /\ call = Call("new", <<>>, <<>>, "none", <<>>, FALSE)
  /\ cycleKey = {}
  /\ overwrites = 0
  /\ result = NoResult
  /\ run = 0
  /\ runBase = 0
  /\ runKey = 0

\* A single-sample extend of the decimation regime whose time is past the
\* curve's max time: the calls a decimation cycle is made of.
CycleCall(r, times) ==
  /\ r.ok
  /\ r.branch \in {"cycleAppend", "overwrite"}
  /\ times[1] > getBackTime(store)

\* DiscreteSE3Curve::extend(times, values, outKeys), times and values parallel.
ExtendStep(maxKey, maxCount) ==
  /\ status = "ok"
  /\ measurementsSinceLastExtend_ < maxCount
  /\ \E n \in 0..MaxBatch :
       /\ nextKey + n <= maxKey
       /\ \E times \in [1..n -> Times], values \in [1..n -> Poses] :
            LET r == Extend(store, nextKey, measurementsSinceLastExtend_,
                            minimumMeasurements_, times, values)
                starts == CycleCall(r, times) /\ measurementsSinceLastExtend_ = 0
                goesOn == /\ CycleCall(r, times)
                          /\ measurementsSinceLastExtend_ # 0
                          /\ run >= 1
                          /\ run < minimumMeasurements_
            IN /\ store' = r.m
               /\ nextKey' = r.next
               /\ measurementsSinceLastExtend_' = r.count
               /\ status' = Outcome(r.ok)
               /\ call' = IF r.ok THEN Call("extend", times, values, r.branch, r.out, FALSE)
                          ELSE Call("extend", <<>>, <<>>, r.branch, <<>>, FALSE)
               /\ cycleKey' = IF ~r.ok \/ r.count = 0 THEN {}
                              ELSE IF r.branch = "cycleAppend" THEN {nextKey}
                              ELSE cycleKey
               /\ overwrites' = IF r.ok /\ r.branch = "overwrite"
                                THEN overwrites + 1 ELSE 0
               /\ result' = NoResult
               /\ run' = IF starts THEN 1 ELSE IF goesOn THEN run + 1 ELSE 0
               /\ runBase' = IF starts THEN Len(store) ELSE IF goesOn THEN runBase ELSE 0
               /\ runKey' = IF starts THEN nextKey ELSE IF goesOn THEN runKey ELSE 0
               /\ UNCHANGED minimumMeasurements_

ExtendAction == ExtendStep(MaxKey, MaxCount)

\* fitCurve(times, values)
FitCurveAction ==
  /\ status = "ok"
  /\ \E times \in SeqsUpTo(FitTimes, MaxBatch), values \in SeqsUpTo(Values, MaxBatch) :
       /\ nextKey + Len(times) <= MaxKey
       /\ LET r == FitCurve(store, nextKey, times, values)
              again == /\ call.op = "fitCurve"
                       /\ call.times = times
                       /\ call.values = values
          IN /\ store' = r.m
             /\ nextKey' = r.next
             /\ status' = Outcome(r.ok)
             /\ call' = IF r.ok THEN Call("fitCurve", times, values, "none", r.out, again)
                        ELSE Call("fitCurve", <<>>, <<>>, "none", <<>>, again)
  /\ cycleKey' = {}
  /\ overwrites' = 0
  /\ result' = NoResult
  /\ run' = 0
  /\ runBase' = 0
  /\ runKey' = 0
  /\ UNCHANGED <<measurementsSinceLastExtend_, minimumMeasurements_>>

\* DiscreteSE3Curve::clear()
ClearAction ==
  /\ status = "ok"
  /\ store' = clear(store)
  /\ call' = Call("clear", <<>>, <<>>, "none", <<>>, FALSE)
  /\ cycleKey' = {}
  /\ overwrites' = 0
  /\ result' = NoResult
  /\ run' = 0
  /\ runBase' = 0
  /\ runKey' = 0
  /\ UNCHANGED <<nextKey, measurementsSinceLastExtend_, minimumMeasurements_, status>>

\* DiscreteSE3Curve::setSamplingRatio(ratio)
SetSamplingRatioAction ==
  /\ status = "ok"
  /\ \E ratio \in 1..MaxRatio :
       /\ ratio # minimumMeasurements_
       /\ minimumMeasurements_' = ratio
  /\ call' = Call("setSamplingRatio", <<>>, <<>>, "none", <<>>, FALSE)
  /\ overwrites' = 0
  /\ result' = NoResult
  /\ run' = 0
  /\ runBase' = 0
  /\ runKey' = 0
  /\ UNCHANGED <<store, nextKey, measurementsSinceLastExtend_, status, cycleKey>>

Next == ExtendAction \/ FitCurveAction \/ ClearAction \/ SetSamplingRatioAction

Spec == Init /\ [][Next]_vars

\* The same curve when the sampling ratio is set once, before the first sample.
NextFixedRatio == ExtendAction \/ FitCurveAction \/ ClearAction

SpecFixedRatio == Init /\ [][NextFixedRatio]_vars

\* extend with more keys and a shorter run of the counter than ExtendAction
\* allows.
ExtendInterleaveAction == ExtendStep(MaxInterleaveKey, MaxInterleaveCount)

\* A curve that is only extended, by single samples and by batches.
SpecInterleave == Init /\ [][ExtendInterleaveAction]_vars

\* extend with a longer run of the counter than ExtendAction allows.
ExtendStreamAction == ExtendStep(MaxKey, MaxStreamCount)

\* A curve that is extended while its sampling ratio is changed.
NextStream == ExtendStreamAction \/ SetSamplingRatioAction

SpecStream == Init /\ [][NextStream]_vars

\* evaluate(time). A query: the curve is not written; a failed CHECK aborts.
EvaluateAction ==
  /\ status = "ok"
  /\ \E time \in Times :
     \E p \in getCoefficientsAt(store, time) :
       LET r == Evaluate(store, time, p)
       IN /\ status' = Outcome(r.ok)
          /\ result' = r.value
          /\ call' = Call("evaluate", <<time>>, <<>>, "none", <<>>, FALSE)
  /\ run' = 0
  /\ runBase' = 0
  /\ runKey' = 0
  /\ UNCHANGED <<store, nextKey, measurementsSinceLastExtend_, minimumMeasurements_,
               cycleKey, overwrites>>

\* evaluateDerivative(time, derivativeOrder)
EvaluateDerivativeAction ==
  /\ status = "ok"
  /\ \E time \in Times, order \in 1..MaxOrder :
       LET r == EvaluateDerivative(store, time, order)
       IN /\ status' = Outcome(r.ok)
          /\ result' = r.value
          /\ call' = Call("evaluateDerivative", <<time>>, <<>>,
                          IF order = 1 THEN "first" ELSE "higher", <<>>, FALSE)
  /\ run' = 0
  /\ runBase' = 0
  /\ runKey' = 0
  /\ UNCHANGED <<store, nextKey, measurementsSinceLastExtend_, minimumMeasurements_,
               cycleKey, overwrites>>

\* fitCurve(times, values) with arguments that meet its preconditions: up to
\* MaxEvalSize samples of strictly increasing times and one dimension.
FitCurveSamplesAction ==
  /\ status = "ok"
  /\ \E n \in 0..MaxEvalSize :
       /\ nextKey + n <= MaxKey
       /\ \E times \in [1..n -> Times] :
            /\ StrictlyIncreasing(times)
            /\ \E values \in [1..n -> Poses] :
                 LET r == FitCurve(store, nextKey, times, values)
                     again == /\ call.op = "fitCurve"
                              /\ call.times = times
                              /\ call.values = values
                 IN /\ store' = r.m
                    /\ nextKey' = r.next
                    /\ status' = Outcome(r.ok)
                    /\ call' = Call("fitCurve", times, values, "none", r.out, again)
  /\ cycleKey' = {}
  /\ overwrites' = 0
  /\ result' = NoResult
  /\ run' = 0
  /\ runBase' = 0
  /\ runKey' = 0
  /\ UNCHANGED <<measurementsSinceLastExtend_, minimumMeasurements_>>

\* The curve as it is queried: fitted, cleared, evaluated. The queries write
\* nothing of the curve, so the curves Spec reaches are queried the same way.
NextEval ==
  FitCurveSamplesAction \/ ClearAction \/ EvaluateAction \/ EvaluateDerivativeAction

SpecEval == Init /\ [][NextEval]_vars

\* ---------------------------------------------------------------- claims
Returned == status = "ok"

SingleSample(c) == Len(c.times) = 1

Last(m) == m[Len(m)]

\* Every entry of m is an entry of n, with its time, key and value.
Kept(m, n) == \A j \in 1..Len(m) : \E i \in 1..Len(n) : n[i] = m[j]

\* n holds (t, v) under a key that m does not hold.
NewIn(m, n, t, v) ==
  \E i \in 1..Len(n) :
    /\ n[i].time = t
    /\ n[i].coefficient = v
    /\ n[i].key \notin KeysOf(m)
    /\ n[i].key >= nextKey

\* C1: in a decimation cycle begun at counter 0 on a curve of at least 2
\* coefficients, after k = 1..N consecutive single-sample extends of increasing
\* times the curve holds exactly one coefficient more than before the cycle, its
\* last entry is the one the first call appended (same key), and the counter is
\* k, or 0 after the N-th call.
C1_DecimationCycle ==
  run >= 1 =>
    /\ Returned
    /\ run <= minimumMeasurements_
    /\ Len(store) = runBase + 1
    /\ Last(store).key = runKey
    /\ measurementsSinceLastExtend_ = (IF run = minimumMeasurements_ THEN 0 ELSE run)

C1_Witness == run = 3 /\ minimumMeasurements_ = 3 /\ measurementsSinceLastExtend_ = 0

\* C2: a single-sample extend(t, v) that returns on a curve of at most one
\* coefficient inserts (t, v) under a fresh key, keeps every coefficient stored
\* before, grows the curve by one and leaves the counter unchanged, whatever the
\* sampling ratio and the counter are.
C2_Bootstrap ==
  [][(call'.op = "extend" /\ Returned' /\ SingleSample(call') /\ Len(store) <= 1) =>
       /\ Len(store') = Len(store) + 1
       /\ NewIn(store, store', call'.times[1], call'.values[1])
       /\ Kept(store, store')
       /\ measurementsSinceLastExtend_' = measurementsSinceLastExtend_]_vars

C2_Witness ==
  /\ Returned
  /\ call.op = "extend"
  /\ call.branch = "bootstrap"
  /\ Len(store) >= 1
  /\ minimumMeasurements_ >= 2
  /\ measurementsSinceLastExtend_ >= 1

\* C3: with a sampling ratio of 1 and at least 2 coefficients, a single-sample
\* extend(t, v) with t past the max time appends (t, v) at the end under a
\* fresh key, changes no other entry and leaves the counter unchanged.
C3_NoDecimation ==
  [][(/\ call'.op = "extend" /\ Returned' /\ SingleSample(call')
      /\ Len(store) >= 2
      /\ minimumMeasurements_ = 1
      /\ call'.times[1] > getBackTime(store)) =>
       /\ store' = Append(store, Entry(call'.times[1], nextKey, call'.values[1]))
       /\ nextKey' = nextKey + 1
       /\ measurementsSinceLastExtend_' = measurementsSinceLastExtend_]_vars

C3_Witness ==
  /\ Returned
  /\ call.op = "extend"
  /\ call.branch = "append"
  /\ Len(store) >= 3
  /\ minimumMeasurements_ = 1
  /\ measurementsSinceLastExtend_ >= 1

\* C4: an extend of more than one sample that returns inserts every given
\* (time, value) under its own fresh key, keeps every coefficient stored before
\* and leaves the counter unchanged, whatever the sampling ratio and the
\* counter are.
C4_BatchBypass ==
  [][(call'.op = "extend" /\ Returned' /\ Len(call'.times) > 1) =>
       /\ Len(store') = Len(store) + Len(call'.times)
       /\ \A i \in 1..Len(call'.times) :
            NewIn(store, store', call'.times[i], call'.values[i])
       /\ Cardinality(KeysOf(store')) = Len(store')
       /\ Kept(store, store')
       /\ measurementsSinceLastExtend_' = measurementsSinceLastExtend_]_vars

C4_Witness ==
  /\ Returned
  /\ call.op = "extend"
  /\ call.branch = "batch"
  /\ Len(call.times) = 2
  /\ Len(store) >= 4
  /\ minimumMeasurements_ >= 2

\* C5: in the decimation regime, after every single-sample extend(t, v) that
\* returns, appending or overwriting, the last coefficient of the curve is (t, v).
C5_TailFreshness ==
  (Returned /\ call.op = "extend" /\ call.branch \in {"cycleAppend", "overwrite"}) =>
    /\ Last(store).time = call.times[1]
    /\ Last(store).coefficient = call.values[1]

\* C6: in every state a returned call leaves, the stored times are strictly
\* increasing and the stored keys are distinct and were all issued by the key
\* generator; a key that enters the store was never issued before, and the
\* generator never goes back (no key is reused, also after clear).
C6_StoreInvariant ==
  /\ [](Returned =>
          /\ StrictlyIncreasing(TimesOf(store))
          /\ Cardinality(KeysOf(store)) = Len(store)
          /\ \A k \in KeysOf(store) : k < nextKey)
  /\ [][Returned' =>
          /\ nextKey' >= nextKey
          /\ \A k \in KeysOf(store') \ KeysOf(store) : k >= nextKey]_vars

C6_Witness ==
  /\ Returned
  /\ call.op = "extend"
  /\ Len(store) = 2
  /\ \A k \in KeysOf(store) : k >= 2

\* C7: with the sampling ratio N fixed and the counter starting at 0, after
\* every call that returns 0 <= measurementsSinceLastExtend_ < N; a call of the
\* decimation regime counts one up and resets to 0 exactly when the count
\* reaches N, every other call leaves the counter alone.
C7_CounterInvariant ==
  /\ [](Returned =>
          /\ 0 <= measurementsSinceLastExtend_
          /\ measurementsSinceLastExtend_ < minimumMeasurements_)
  /\ [][Returned' =>
          measurementsSinceLastExtend_' =
            (IF call'.op = "extend" /\ call'.branch \in {"cycleAppend", "overwrite"}
             THEN (IF measurementsSinceLastExtend_ + 1 = minimumMeasurements_
                   THEN 0 ELSE measurementsSinceLastExtend_ + 1)
             ELSE measurementsSinceLastExtend_)]_vars

C7_Witness ==
  /\ Returned
  /\ call.op = "extend"
  /\ call.branch = "overwrite"
  /\ minimumMeasurements_ = 3
  /\ measurementsSinceLastExtend_ = 0

\* C8: after a fitCurve(times, values) that returns, for every input, the empty
\* one included, the curve holds exactly the given times with the given values.
C8_FitCurveDiscards ==
  (Returned /\ call.op = "fitCurve") =>
    /\ TimesOf(store) = call.times
    /\ ValuesOf(store) = call.values

\* C9: a fitCurve(times, values) that repeats the fitCurve call before it
\* returns and leaves the same stored times and values as the first call did;
\* the coefficients it inserts (all the stored ones, when times is not empty)
\* get fresh keys, none of them a key stored before.
C9_FitCurveIdempotent ==
  [][(call'.op = "fitCurve" /\ call'.again) =>
       /\ Returned'
       /\ TimesOf(store') = TimesOf(store)
       /\ ValuesOf(store') = ValuesOf(store)
       /\ Len(call'.times) > 0 =>
            /\ KeysOf(store') \cap KeysOf(store) = {}
            /\ \A k \in KeysOf(store') : k >= nextKey]_vars

C9_Witness ==
  /\ Returned
  /\ call.op = "fitCurve"
  /\ call.again
  /\ Len(store) = 2
  /\ store[1].coefficient # store[2].coefficient

\* C10: a fitCurve call that fails with a precondition violation leaves every
\* coefficient stored before the call in place, with its time, value and key.
C10_FitCurveFailureKeepsStore ==
  [][(call'.op = "fitCurve" /\ status' = "failed") => store' = store]_vars

\* ------------------------------------------------------- claims on queries
\* The query result is exactly the vector v.
ResultIs(r, v) ==
  /\ r.kind = "value"
  /\ Len(r.num) = Len(v)
  /\ \A k \in 1..Len(v) : r.num[k] = r.den * v[k]

\* The query result is exactly the slope from entry c0 to entry c1.
SlopeIs(r, c0, c1) ==
  /\ r.kind = "value"
  /\ \A k \in 1..Len(c0.coefficient) :
       r.num[k] * (c1.time - c0.time) =
         r.den * (c1.coefficient[k] - c0.coefficient[k])

IsZero(r) == r.kind = "value" /\ \A k \in 1..Len(r.num) : r.num[k] = 0

\* C11: evaluate(time) on an empty curve or with time < getMinTime() returns
\* to the caller (a recoverable NotFound outcome), and the stored entries, the
\* key generator and the policy counter are as before the call.
C11_OutOfRangeRecoverable ==
  [][(/\ call'.op = "evaluate"
      /\ (isEmpty(store) \/ call'.times[1] < getFrontTime(store)))
     => /\ status' = "ok"
        /\ UNCHANGED <<store, nextKey, measurementsSinceLastExtend_,
                       minimumMeasurements_>>]_vars

\* C12: on a non-empty curve (one coefficient included) every stored time lies
\* in [getMinTime(), getMaxTime()], and evaluate at getMinTime() and at
\* getMaxTime() returns a value.
C12_CurveExtent ==
  /\ [](~isEmpty(store) =>
          \A i \in 1..Len(store) :
            getFrontTime(store) <= store[i].time /\ store[i].time <= getBackTime(store))
  /\ [][(/\ call'.op = "evaluate"
         /\ ~isEmpty(store)
         /\ call'.times[1] \in {getFrontTime(store), getBackTime(store)})
        => (status' = "ok" /\ result'.kind = "value")]_vars

\* C13: for every pair of neighbouring coefficients (t0, v0), (t1, v1) with
\* t0 <= time <= t1, evaluate(time) returns
\* ((t1 - time) * v0 + (time - t0) * v1) / (t1 - t0), whatever else is stored;
\* so v0 at t0 and v1 at t1.
C13_LinearInterpolation ==
  [][call'.op = "evaluate" =>
       \A i \in 1..(Len(store) - 1) :
         LET c0 == store[i]
             c1 == store[i + 1]
             time == call'.times[1]
         IN (c0.time <= time /\ time <= c1.time) =>
              /\ status' = "ok"
              /\ result'.kind = "value"
              /\ \A k \in 1..Len(c0.coefficient) :
                   result'.num[k] * (c1.time - c0.time) =
                     result'.den * ((c1.time - time) * c0.coefficient[k]
                                    + (time - c0.time) * c1.coefficient[k])
              /\ (time = c0.time => ResultIs(result', c0.coefficient))
              /\ (time = c1.time => ResultIs(result', c1.coefficient))]_vars

\* evaluate returned one half, halfway between a coefficient 0 and a
\* coefficient 1, on a curve of three coefficients.
C13_Witness ==
  /\ call.op = "evaluate"
  /\ Returned
  /\ Len(store) = 3
  /\ result.kind = "value"
  /\ 2 * result.num[1] = result.den
  /\ \E i \in 1..2 : store[i].time < call.times[1] /\ call.times[1] < store[i + 1].time

\* C14: evaluateDerivative fails when the curve has fewer than 2 coefficients
\* or time is out of bounds; otherwise higher orders are zero and the first
\* order is the slope (i) between the two coefficients time lies strictly
\* between, (ii) from the coefficient at time to the next one, (iii) from the
\* second-to-last to the last coefficient when time is on the last one.
C14_DerivativePairSelection ==
  [][call'.op = "evaluateDerivative" =>
       LET time == call'.times[1]
           n == Len(store)
       IN IF n < 2 \/ time < getFrontTime(store) \/ time > getBackTime(store)
          THEN status' = "failed"
          ELSE /\ status' = "ok"
               /\ call'.branch = "higher" => IsZero(result')
               /\ call'.branch = "first" =>
                    /\ \A i \in 1..(n - 1) :
                         (store[i].time < time /\ time < store[i + 1].time)
                           => SlopeIs(result', store[i], store[i + 1])
                    /\ \A i \in 1..(n - 1) :
                         store[i].time = time
                           => SlopeIs(result', store[i], store[i + 1])
                    /\ store[n].time = time
                         => SlopeIs(result', store[n - 1], store[n])]_vars

\* The first derivative was taken on the middle one of three coefficients, where
\* the slope to the next coefficient is not the slope from the previous one.
C14_Witness ==
  /\ call.op = "evaluateDerivative"
  /\ call.branch = "first"
  /\ Returned
  /\ Len(store) = 3
  /\ call.times[1] = store[2].time
  /\ SlopeIs(result, store[2], store[3])
  /\ ~SlopeIs(result, store[1], store[2])

\* C16: evaluate never computes alpha with t1 = t0 (no 0/0), and on a curve of
\* one coefficient evaluate at that coefficient's time returns its value.
C16_NoDivisionByZero ==
  [][call'.op = "evaluate" =>
       /\ result'.kind # "nan"
       /\ (Len(store) = 1 /\ call'.times[1] = store[1].time)
            => (status' = "ok" /\ ResultIs(result', store[1].coefficient))]_vars

\* ------------------------------------------------ claims on the extend policy
\* C15: a single-sample extend(t, v) that overwrites leaves the number of
\* coefficients as it was, stores (t, v) under the key the last coefficient
\* had, issues no key, and leaves every other coefficient with its time, value
\* and key.
C15_OverwriteFrame ==
  [][(/\ call'.op = "extend"
      /\ call'.branch = "overwrite"
      /\ status' = "ok")
     => /\ measurementsSinceLastExtend_ + 1 >= 2
        /\ Len(store') = Len(store)
        /\ nextKey' = nextKey
        /\ \E j \in 1..Len(store') :
             store'[j] = Entry(call'.times[1], Last(store).key, call'.values[1])
        /\ \A i \in 1..(Len(store) - 1) :
             \E j \in 1..Len(store') : store'[j] = store[i]]_vars

\* An overwrite returned on a curve of three coefficients: the last coefficient
\* holds the sample under the key that was issued last.
C15_Witness ==
  /\ call.op = "extend"
  /\ call.branch = "overwrite"
  /\ Returned
  /\ Len(store) = 3
  /\ Last(store).time = call.times[1]
  /\ Last(store).coefficient = call.values[1]
  /\ Last(store).key = nextKey - 1

\* C18: an extend that returns reports no key when it overwrites; otherwise it
\* reports one key per sample, in input order, each key fresh and the key under
\* which that sample is stored (one key for a single-sample call).
C18_OutKeys ==
  [][(call'.op = "extend" /\ status' = "ok")
     => IF call'.branch = "overwrite"
        THEN call'.out = <<>>
        ELSE /\ Len(call'.out) = Len(call'.times)
             /\ \A i \in 1..Len(call'.times) :
                  /\ call'.out[i] \notin KeysOf(store)
                  /\ call'.out[i] >= nextKey
                  /\ \E j \in 1..Len(store') :
                       store'[j] = Entry(call'.times[i], call'.out[i], call'.values[i])
             /\ \A i, j \in 1..Len(call'.out) : i # j => call'.out[i] # call'.out[j]]_vars

\* A batch extend of two samples returned and reported two keys, on a curve
\* that held coefficients before.
C18_Witness ==
  /\ call.op = "extend"
  /\ call.branch = "batch"
  /\ Returned
  /\ Len(call.out) = 2
  /\ Len(store) = 4

\* The coefficients were stored in the order of their times.
KeyOrdered(m) == \A i, j \in 1..Len(m) : i < j => m[i].key < m[j].key

\* C17: on a curve that is extended by single samples and by batches in the
\* order of their times, a single-sample extend that overwrites replaces the
\* coefficient appended by the first measurement of the decimation cycle under
\* way, never a coefficient of a batch or of the bootstrap.
C17_OverwriteTarget ==
  [][(/\ call'.op = "extend"
      /\ call'.branch = "overwrite"
      /\ status' = "ok"
      /\ KeyOrdered(store))
     => Last(store).key \in cycleKey]_vars

\* C19: since the last setSamplingRatio(N), or the last call that was no
\* overwrite, at most N = minimumMeasurements_ single-sample extends in a row
\* have overwritten.
C19_RatioChange == overwrites <= minimumMeasurements_

====
